---------------------------- MODULE Spec2Model ----------------------------
(***************************************************************************)
(* A model of the performance-analysis data pipeline of ai-robo-advisor:   *)
(*                                                                         *)
(*   - get_stock_history / _call_with_retries (src/tools/polygon_api.py):  *)
(*     one fetch with its per-call timeout, retry loop and backoff, and    *)
(*     the single-worker executor the attempts are submitted to;           *)
(*   - fetch_histories_concurrently (src/tools/polygon_api.py): the batch  *)
(*     of fetches on a pool of workers and the as_completed loop;          *)
(*   - all_data (src/utils/analysis_data.py), analyze_portfolio            *)
(*     (src/utils/metrics.py) and analyze_performance                      *)
(*     (src/nodes/analyst_agents/performance.py);                          *)
(*   - the advisory workflow (src/main.py) from create_portfolio on, with  *)
(*     the analyst graph (src/nodes/analyst_agents/analysis_workflow.py);  *)
(*   - calculate_performance_metrics (src/utils/metrics.py);               *)
(*   - get_overview and its cache (src/utils/alphavantage.py).             *)
(*                                                                         *)
(* Each part has its own specification (SpecFetch, SpecBatch,              *)
(* SpecAnalysis, SpecWorkflow, SpecMetrics, SpecCache); the variables of   *)
(* the other parts stay idle.                                              *)
(*                                                                         *)
(* Abstractions.  A price history is its number of bars (history_to_dict   *)
(* keeps the length of the list it converts).  Weights are exact rationals *)
(* <<numerator, denominator>>, where the code computes in floating point.  *)
(* A sleep is counted in tenths of a second.                               *)
(***************************************************************************)
EXTENDS Integers, Sequences, FiniteSets, TLC

(***************************************************************************)
(* Bounds of the model and constants of the program.                       *)
(***************************************************************************)
\* the largest max_retries a fetch is configured with (the default is 3)
MaxRetriesCfg == 3

\* the longest list of bars the vendor returns
MaxBars == 2

\* polygon_api.py:14  DEFAULT_MAX_RETRIES = config(..., default=3)
DEFAULT_MAX_RETRIES == 3

\* polygon_api.py:110  backoff_base = 1.0 s, in tenths of a second
backoff_base == 10

\* polygon_api.py:133  random.uniform(0, 0.5), the upper end in tenths
MaxJitter == 5

\* the longest list of tickers a batch is asked for
MaxTickers == 3

\* polygon_api.py:174  ThreadPoolExecutor(max_workers=5)
max_workers == 5

\* the ticker symbols of the model
Tickers == {"VTI", "BND", "SPY"}

\* the most holdings a portfolio has
MaxHoldings == 3

\* create_portfolio stores at most this many holdings
MaxCreatedHoldings == 2

\* create_portfolio runs at most this many times
MaxCreates == 4

\* the longest price series and the highest price
MaxPrices == 3

MaxPrice == 4

\* the calls of get_overview in one run
MaxOverviewCalls == 3

\* alphavantage.py:35  _MAX_RETRIES = 5
_MAX_RETRIES == 5

\* the weights a holding can have, in percent
Weights == {0, 20, 60}

\* the benchmark tickers a call is made with ("" is the empty string)
Benchmarks == {"ACWI", "SPY", "VT", ""}

\* the header sets a vendor error can carry
Headers == {"h1", "h2"}

VARIABLES
    \* ---- one fetch: get_stock_history and _call_with_retries
    fpc,            \* where get_stock_history is
    polygonAvailable, \* POLYGON_AVAILABLE
    maxRetries,     \* max_retries
    attempt,        \* attempt
    lastExc,        \* last_exc
    futs,           \* the futures submitted to the per-fetch executor
    sleeps,         \* the time.sleep calls made, in order, in tenths of a second
    outcomes,       \* what each attempt came to, as the loop saw it
    calls,          \* backend calls (client.get_aggs) the worker started
    exitWith,       \* what leaves the with block: a value or an exception
    fresult,        \* what get_stock_history returned
    lastHeaders,    \* LAST_RATE_LIMIT_HEADERS
    \* ---- one batch: fetch_histories_concurrently
    bpc,            \* where fetch_histories_concurrently is
    tickers,        \* tickers, the list it is called with
    bfut,           \* future_to_ticker: the future of each entry of tickers
    histories,      \* histories
    \* ---- one analysis: all_data, analyze_portfolio, analyze_performance
    apc,            \* where the call is
    caller,         \* the function called: "all_data" or "analyze_performance"
    portfolioType,  \* type(portfolio).__name__
    holdingClass,   \* the type of the elements of portfolio.holdings
    holdings,       \* portfolio.holdings: records of symbol and weight
    benchmark,      \* benchmark_ticker
    allowPartial,   \* allow_partial
    fetched,        \* all_histories, as fetch_histories_concurrently returned it
    fetchCalls,     \* calls of fetch_histories_concurrently
    requested,      \* the tickers fetch_histories_concurrently was called with
    adResult,       \* what all_data returned or raised
    apArgs,         \* the arguments analyze_portfolio was called with
    apFacts,        \* what the price data of that call make fail
    apResult,       \* what analyze_portfolio returned or raised
    perf,           \* state['data']['analysis']['performance']
    allDataCalls,   \* calls of all_data
    analyzeCalls,   \* calls of analyze_portfolio
    llmCalls,       \* calls of llm.with_structured_output(...).invoke
    \* ---- one run of the advisory workflow
    wpc,            \* the node of the main graph that runs next
    routerView,     \* the state object the graph hands to check_analysis
    data,           \* state['data']
    npc,            \* where each analysis node of the analyst graph is
    nodeSaw,        \* what each node's test 'analysis' not in state['data'] gave
    creates,        \* runs of create_portfolio
    revisions,      \* runs of prepare_portfolio_feedback
    \* ---- one call of calculate_performance_metrics
    mpc,            \* where the call is
    prices,         \* price_series: the prices of consecutive days
    metrics,        \* what the call returned or raised
    \* ---- calls of get_overview, one after the other
    cacheFiles,     \* the files of the cache directory: path -> JSON stored
    populated,      \* path -> what the call that wrote the file returned
    overviewCalls,  \* calls of get_overview made
    lastCall        \* the last call: its arguments, requests and outcome

fetchVars == <<fpc, polygonAvailable, maxRetries, attempt, lastExc, futs, sleeps,
               outcomes, calls, exitWith, fresult, lastHeaders>>

batchVars == <<bpc, tickers, bfut, histories>>

analysisVars == <<apc, caller, portfolioType, holdingClass, holdings, benchmark, allowPartial,
                  fetched, fetchCalls, requested, adResult, apArgs, apFacts, apResult, perf, allDataCalls,
                  analyzeCalls, llmCalls>>

workflowVars == <<wpc, routerView, data, npc, nodeSaw, creates, revisions>>

metricsVars == <<mpc, prices, metrics>>

cacheVars == <<cacheFiles, populated, overviewCalls, lastCall>>

restVars == <<workflowVars, metricsVars, cacheVars>>

vars == <<fetchVars, batchVars, analysisVars, restVars>>

(***************************************************************************)
(* One fetch.                                                              *)
(***************************************************************************)
\* what a step of one fetch leaves alone
otherThanFetch == <<batchVars, analysisVars, restVars>>

NoFuture == [st |-> "pending", kind |-> "none", n |-> 0, hdr |-> "none"]

NoExit == [kind |-> "none", n |-> 0]

\* a future the worker is executing (running, or stuck in a call that never ends)
Busy(f) == f.st \in {"running", "stuck"}

WorkerBusy == \E i \in 1..Len(futs) : Busy(futs[i])

\* polygon_api.py:222-246: one dict per item of the list it is given
history_to_dict(n) == n

\* 2 ** k
RECURSIVE Pow2(_)
Pow2(k) == IF k = 0 THEN 1 ELSE 2 * Pow2(k - 1)

\* polygon_api.py:133: backoff_base * (2 ** (attempt - 1)), without the jitter
Backoff(a) == backoff_base * Pow2(a - 1)

FetchIdle ==
    /\ fpc = "idle"
    /\ maxRetries = DEFAULT_MAX_RETRIES
    /\ attempt = 0
    /\ lastExc = "none"
    /\ futs = <<>>
    /\ sleeps = <<>>
    /\ outcomes = <<>>
    /\ calls = 0
    /\ exitWith = NoExit
    /\ fresult = -1

BatchIdle ==
    /\ bpc = "idle"
    /\ tickers = <<>>
    /\ bfut = <<>>
    /\ histories = <<>>

NoResult == [kind |-> "none"]

AnalysisIdle ==
    /\ apc = "idle"
    /\ caller = "none"
    /\ portfolioType = "Portfolio"
    /\ holdingClass = "Holding"
    /\ holdings = <<>>
    /\ benchmark = ""
    /\ allowPartial = TRUE
    /\ fetched = <<>>
    /\ fetchCalls = 0
    /\ requested = {}
    /\ adResult = NoResult
    /\ apArgs = NoResult
    /\ apFacts = NoResult
    /\ apResult = NoResult
    /\ perf = NoResult
    /\ allDataCalls = 0
    /\ analyzeCalls = 0
    /\ llmCalls = 0

\* no workflow is running
WorkflowIdle ==
    /\ wpc = "idle"
    /\ routerView = "none"
    /\ data = <<>>
    /\ npc = <<>>
    /\ nodeSaw = <<>>
    /\ creates = 0
    /\ revisions = 0

\* no metrics are being computed
MetricsIdle ==
    /\ mpc = "idle"
    /\ prices = <<>>
    /\ metrics = NoResult

\* get_overview is not in use
CacheIdle ==
    /\ cacheFiles = <<>>
    /\ populated = <<>>
    /\ overviewCalls = 0
    /\ lastCall = NoResult

RestIdle == WorkflowIdle /\ MetricsIdle /\ CacheIdle

FetchInit ==
    /\ fpc = "start"
    /\ polygonAvailable \in BOOLEAN
    /\ maxRetries \in 0..MaxRetriesCfg
    /\ attempt = 0
    /\ lastExc = "none"
    /\ futs = <<>>
    /\ sleeps = <<>>
    /\ outcomes = <<>>
    /\ calls = 0
    /\ exitWith = NoExit
    /\ fresult = -1
    /\ lastHeaders \in {"none"} \cup Headers

\* polygon_api.py:203-205: the availability check and the client's construction,
\* which is outside the try block of lines 215-220
GetStockHistoryStart ==
    /\ fpc = "start"
    /\ \/ /\ ~polygonAvailable
          /\ fresult' = 0
          /\ fpc' = "done"
       \/ /\ polygonAvailable
          /\ fpc' = "loop"
          /\ UNCHANGED fresult
       \/ /\ polygonAvailable
          /\ fpc' = "raised"
          /\ UNCHANGED fresult
    /\ UNCHANGED <<polygonAvailable, maxRetries, attempt, lastExc, futs, sleeps,
                   outcomes, calls, exitWith, lastHeaders>>
    /\ UNCHANGED otherThanFetch

\* polygon_api.py:114-116 and 146-147: the loop's test, the submit, the loop's exit
CallWithRetriesLoop ==
    /\ fpc = "loop"
    /\ \/ /\ attempt <= maxRetries
          /\ attempt' = attempt + 1
          /\ futs' = Append(futs, NoFuture)
          /\ fpc' = "wait"
          /\ UNCHANGED exitWith
       \/ /\ ~(attempt <= maxRetries)
          /\ exitWith' = IF lastExc # "none"
                         THEN [kind |-> lastExc, n |-> 0]
                         ELSE [kind |-> "None", n |-> 0]
          /\ fpc' = "shutdown"
          /\ UNCHANGED <<attempt, futs>>
    /\ UNCHANGED <<polygonAvailable, maxRetries, lastExc, sleeps, outcomes, calls,
                   fresult, lastHeaders>>
    /\ UNCHANGED otherThanFetch

\* polygon_api.py:118-119: the future has a value, which is returned
CallWithRetriesValue ==
    /\ fpc = "wait"
    /\ futs[attempt].st = "done"
    /\ futs[attempt].kind \in {"bars", "empty"}
    /\ outcomes' = Append(outcomes, futs[attempt].kind)
    /\ exitWith' = [kind |-> "value", n |-> futs[attempt].n]
    /\ fpc' = "shutdown"
    /\ UNCHANGED <<polygonAvailable, maxRetries, attempt, lastExc, futs, sleeps,
                   calls, fresult, lastHeaders>>
    /\ UNCHANGED otherThanFetch

\* polygon_api.py:34-53
IsRateLimitException(kind) == kind = "ratelimit"

\* polygon_api.py:132: the test that decides a retry
RetryTest(kind, a, m) == IsRateLimitException(kind) /\ a <= m

\* polygon_api.py:124-144: the future raised
CallWithRetriesException ==
    /\ fpc = "wait"
    /\ futs[attempt].st = "done"
    /\ futs[attempt].kind \in {"ratelimit", "error"}
    /\ outcomes' = Append(outcomes, futs[attempt].kind)
    /\ lastExc' = futs[attempt].kind
    /\ lastHeaders' = IF futs[attempt].hdr # "none" THEN futs[attempt].hdr
                      ELSE lastHeaders
    /\ \/ /\ RetryTest(futs[attempt].kind, attempt, maxRetries)
          /\ \E j \in {0, MaxJitter} : sleeps' = Append(sleeps, Backoff(attempt) + j)
          /\ fpc' = "loop"
          /\ UNCHANGED exitWith
       \/ /\ ~RetryTest(futs[attempt].kind, attempt, maxRetries)
          /\ exitWith' = [kind |-> futs[attempt].kind, n |-> 0]
          /\ fpc' = "shutdown"
          /\ UNCHANGED sleeps
    /\ UNCHANGED <<polygonAvailable, maxRetries, attempt, futs, calls, fresult>>
    /\ UNCHANGED otherThanFetch

\* polygon_api.py:120-123: future.result timed out; cancel() takes a future that
\* has not started and leaves a running one alone
CallWithRetriesTimeout ==
    /\ fpc = "wait"
    /\ futs[attempt].st # "done"
    /\ outcomes' = Append(outcomes, "timeout")
    /\ futs' = IF futs[attempt].st = "pending"
               THEN [futs EXCEPT ![attempt].st = "cancelled"]
               ELSE futs
    /\ lastExc' = "timeout"
    /\ fpc' = "loop"
    /\ UNCHANGED <<polygonAvailable, maxRetries, attempt, sleeps, calls, exitWith,
                   fresult, lastHeaders>>
    /\ UNCHANGED otherThanFetch

\* the executor's one worker (max_workers=1, line 113) takes the next future and
\* calls client.get_aggs (line 213); the call may never come back
WorkerStart ==
    /\ fpc \in {"wait", "loop"}
    /\ ~WorkerBusy
    /\ \E i \in 1..Len(futs) :
          /\ futs[i].st = "pending"
          /\ \E s \in {"running", "stuck"} : futs' = [futs EXCEPT ![i].st = s]
    /\ calls' = calls + 1
    /\ UNCHANGED <<fpc, polygonAvailable, maxRetries, attempt, lastExc, sleeps,
                   outcomes, exitWith, fresult, lastHeaders>>
    /\ UNCHANGED otherThanFetch

\* what a backend call comes back with: bars, an empty list, or an exception
BackendResults ==
    {[st |-> "done", kind |-> "bars", n |-> n, hdr |-> "none"] : n \in 1..MaxBars}
    \cup {[st |-> "done", kind |-> "empty", n |-> 0, hdr |-> "none"]}
    \cup {[st |-> "done", kind |-> k, n |-> 0, hdr |-> h] :
            k \in {"ratelimit", "error"}, h \in {"none"} \cup Headers}

\* the result of a future the loop has given up on (it timed out) is never read
Abandoned == [st |-> "done", kind |-> "abandoned", n |-> 0, hdr |-> "none"]

\* the backend call of a running future comes back
WorkerFinish ==
    /\ \E i \in 1..Len(futs) :
          /\ futs[i].st = "running"
          /\ \/ /\ Len(outcomes) < i
                /\ \E r \in BackendResults : futs' = [futs EXCEPT ![i] = r]
             \/ /\ Len(outcomes) >= i
                /\ futs' = [futs EXCEPT ![i] = Abandoned]
    /\ UNCHANGED <<fpc, polygonAvailable, maxRetries, attempt, lastExc, sleeps,
                   outcomes, calls, exitWith, fresult, lastHeaders>>
    /\ UNCHANGED otherThanFetch

\* polygon_api.py:113 and 215-220: leaving the with block joins the worker
\* (shutdown(wait=True)); then the value is converted, or the exception caught
GetStockHistoryReturn ==
    /\ fpc = "shutdown"
    /\ ~WorkerBusy
    /\ fresult' = IF exitWith.kind = "value" THEN history_to_dict(exitWith.n) ELSE 0
    /\ fpc' = "done"
    /\ UNCHANGED <<polygonAvailable, maxRetries, attempt, lastExc, futs, sleeps,
                   outcomes, calls, exitWith, lastHeaders>>
    /\ UNCHANGED otherThanFetch

FetchNext ==
    \/ GetStockHistoryStart
    \/ CallWithRetriesLoop
    \/ CallWithRetriesValue
    \/ CallWithRetriesException
    \/ CallWithRetriesTimeout
    \/ WorkerStart
    \/ WorkerFinish
    \/ GetStockHistoryReturn

InitFetch == FetchInit /\ BatchIdle /\ AnalysisIdle /\ RestIdle

SpecFetch == InitFetch /\ [][FetchNext]_vars

\* the caller's thread and the executor's worker thread keep running: a step
\* that can be taken is eventually taken
SpecFetchFair == SpecFetch /\ WF_vars(FetchNext)

(***************************************************************************)
(* One batch.  A worker's call of get_stock_history is one step here: it   *)
(* returns a list (bars, or empty), raises (SpecFetch: the client cannot   *)
(* be constructed) or never returns (SpecFetch: a backend call is stuck);  *)
(* on its way it may record rate-limit headers.                            *)
(***************************************************************************)
otherThanBatch == <<fpc, maxRetries, attempt, lastExc, futs, sleeps, outcomes,
                    calls, exitWith, fresult, analysisVars, restVars>>

\* the tickers in a fixed order
TickerOrder == <<"VTI", "BND", "SPY">>

\* the place of ticker t in TickerOrder
Rank(t) == CHOOSE r \in 1..Len(TickerOrder) : TickerOrder[r] = t

\* a list that names its tickers in the order of TickerOrder at their first
\* occurrence: the batch treats a symbol as an opaque key, so every list is such
\* a list up to a renaming of its symbols
FirstUseOrdered(l) ==
    \A i \in 1..Len(l) :
        \A r \in 1..(Rank(l[i]) - 1) : \E j \in 1..(i - 1) : l[j] = TickerOrder[r]

\* the lists of at most n tickers, duplicates included, up to renaming
ListsUpTo(n) == {l \in UNION {[1..k -> Tickers] : k \in 0..n} : FirstUseOrdered(l)}

\* the set of the tickers asked for
TickerSet == {tickers[i] : i \in 1..Len(tickers)}

BatchInit ==
    /\ bpc = "start"
    /\ tickers \in ListsUpTo(MaxTickers)
    /\ bfut = <<>>
    /\ histories = <<>>
    /\ polygonAvailable \in BOOLEAN
    /\ lastHeaders = "none"

\* polygon_api.py:168-178: the availability check, then one submit per ticker
BatchStart ==
    /\ bpc = "start"
    /\ \/ /\ ~polygonAvailable
          /\ bpc' = "done"
          /\ UNCHANGED bfut
       \/ /\ polygonAvailable
          /\ bfut' = [i \in 1..Len(tickers) |-> [st |-> "queued", out |-> "none", n |-> 0]]
          /\ bpc' = "collect"
    /\ UNCHANGED <<tickers, histories, polygonAvailable, lastHeaders>>
    /\ UNCHANGED otherThanBatch

\* the futures a pool worker is executing
Running == {i \in 1..Len(bfut) : bfut[i].st \in {"running", "stuck"}}

\* a pool worker takes the oldest queued future (the executor's queue is FIFO)
BatchWorkerStart ==
    /\ bpc = "collect"
    /\ Cardinality(Running) < max_workers
    /\ \E i \in 1..Len(bfut) :
          /\ bfut[i].st = "queued"
          /\ \A j \in 1..(i - 1) : bfut[j].st # "queued"
          /\ bfut' = [bfut EXCEPT ![i].st = "running"]
    /\ UNCHANGED <<bpc, tickers, histories, polygonAvailable, lastHeaders>>
    /\ UNCHANGED otherThanBatch

\* polygon_api.py:127-130, in a worker's thread: the fetch saw an exception
\* carrying headers
BatchWorkerHeaders ==
    /\ bpc = "collect"
    /\ \E i \in 1..Len(bfut), h \in Headers :
          /\ bfut[i].st = "running"
          /\ lastHeaders # h
          /\ lastHeaders' = h
    /\ UNCHANGED <<bpc, tickers, bfut, histories, polygonAvailable>>
    /\ UNCHANGED otherThanBatch

\* what get_stock_history comes to in a worker
FetchResults ==
    {[st |-> "finished", out |-> "bars", n |-> n] : n \in 1..MaxBars}
    \cup {[st |-> "finished", out |-> "empty", n |-> 0],
          [st |-> "finished", out |-> "raise", n |-> 0],
          [st |-> "stuck", out |-> "none", n |-> 0]}

\* a worker's get_stock_history ends (or is found never to end)
BatchWorkerFinish ==
    /\ bpc = "collect"
    /\ \E i \in 1..Len(bfut) :
          /\ bfut[i].st = "running"
          /\ \E r \in FetchResults : bfut' = [bfut EXCEPT ![i] = r]
    /\ UNCHANGED <<bpc, tickers, histories, polygonAvailable, lastHeaders>>
    /\ UNCHANGED otherThanBatch

\* d with key k set to v
Put(d, k, v) == [x \in DOMAIN d \cup {k} |-> IF x = k THEN v ELSE d[x]]

\* BatchCollect without the except clause of lines 186-187: a future's exception
\* leaves the loop
BatchCollectNoCatch ==
    /\ bpc = "collect"
    /\ \E i \in 1..Len(bfut) :
          /\ bfut[i].st = "finished"
          /\ bfut' = [bfut EXCEPT ![i].st = "taken"]
          /\ histories' = IF bfut[i].out = "bars"
                          THEN Put(histories, tickers[i], bfut[i].n)
                          ELSE histories
          /\ bpc' = IF bfut[i].out = "raise" THEN "raised" ELSE bpc
    /\ UNCHANGED <<tickers, polygonAvailable, lastHeaders>>
    /\ UNCHANGED otherThanBatch

\* BatchCollect without the test "if result" of line 184: an empty list is
\* stored like any other result
BatchCollectKeepsEmpty ==
    /\ bpc = "collect"
    /\ \E i \in 1..Len(bfut) :
          /\ bfut[i].st = "finished"
          /\ bfut' = [bfut EXCEPT ![i].st = "taken"]
          /\ histories' = IF bfut[i].out \in {"bars", "empty"}
                          THEN Put(histories, tickers[i], bfut[i].n)
                          ELSE histories
    /\ UNCHANGED <<bpc, tickers, polygonAvailable, lastHeaders>>
    /\ UNCHANGED otherThanBatch

\* polygon_api.py:180-187: as_completed hands over a finished future; its result
\* is stored when it is a non-empty list, its exception is logged and dropped
BatchCollect ==
    /\ bpc = "collect"
    /\ \E i \in 1..Len(bfut) :
          /\ bfut[i].st = "finished"
          /\ bfut' = [bfut EXCEPT ![i].st = "taken"]
          /\ histories' = IF bfut[i].out = "bars"
                          THEN Put(histories, tickers[i], bfut[i].n)
                          ELSE histories
    /\ UNCHANGED <<bpc, tickers, polygonAvailable, lastHeaders>>
    /\ UNCHANGED otherThanBatch

\* polygon_api.py:174 and 189: as_completed is exhausted, the with block is left
\* (every future is done), histories is returned
BatchReturn ==
    /\ bpc = "collect"
    /\ \A i \in 1..Len(bfut) : bfut[i].st = "taken"
    /\ bpc' = "done"
    /\ UNCHANGED <<tickers, bfut, histories, polygonAvailable, lastHeaders>>
    /\ UNCHANGED otherThanBatch

BatchNext ==
    \/ BatchStart
    \/ BatchWorkerStart
    \/ BatchWorkerHeaders
    \/ BatchWorkerFinish
    \/ BatchCollect
    \/ BatchReturn

InitBatch == BatchInit /\ FetchIdle /\ AnalysisIdle /\ RestIdle

SpecBatch == InitBatch /\ [][BatchNext]_vars

(***************************************************************************)
(* One analysis.  Weights are rationals <<numerator, denominator>> with a  *)
(* positive denominator, kept in lowest terms.                             *)
(***************************************************************************)
otherThanAnalysis == <<fetchVars, batchVars, restVars>>

RECURSIVE GCD(_, _)
GCD(a, b) == IF b = 0 THEN a ELSE GCD(b, a % b)

Abs(x) == IF x < 0 THEN -x ELSE x

Reduce(r) ==
    LET g == GCD(Abs(r[1]), r[2])
    IN  <<r[1] \div g, r[2] \div g>>

Rat(n) == <<n, 1>>

RAdd(a, b) == Reduce(<<a[1] * b[2] + b[1] * a[2], a[2] * b[2]>>)

RMul(a, b) == Reduce(<<a[1] * b[1], a[2] * b[2]>>)

\* a / b, for b > 0
RDiv(a, b) == Reduce(<<a[1] * b[2], a[2] * b[1]>>)

RPositive(a) == a[1] > 0

\* sum(d.values()) over the keys in S
RECURSIVE RSumOver(_, _)
RSumOver(d, S) ==
    IF S = {} THEN Rat(0)
    ELSE LET t == CHOOSE x \in S : TRUE
         IN  RAdd(d[t], RSumOver(d, S \ {t}))

RSum(d) == RSumOver(d, DOMAIN d)

EmptyDict == [t \in {} |-> 0]

\* {k: d[k] for k in d if k in S}
Restrict(d, S) == [t \in (DOMAIN d) \cap S |-> d[t]]

\* the symbols of the holdings, in the one order the model lists them in
HoldingOrder == <<"VTI", "BND", "SPY", "">>

\* portfolio.holdings: at most MaxHoldings holdings with distinct symbols
HoldingLists ==
    {h \in UNION {[1..k -> [symbol : Tickers \cup {""}, weight : Weights]] :
                    k \in 0..MaxHoldings} :
        \A i \in 1..Len(h) : \A j \in 1..Len(h) :
            i < j => \E a \in 1..Len(HoldingOrder) : \E b \in 1..Len(HoldingOrder) :
                        /\ a < b
                        /\ HoldingOrder[a] = h[i].symbol
                        /\ HoldingOrder[b] = h[j].symbol}

Raise(type, why) == [kind |-> type, why |-> why]

NoWarning == [msg |-> <<>>, missing_tickers |-> {}]

\* portfolio_tickers
PortfolioTickers(hs) == {hs[i].symbol : i \in 1..Len(hs)}

\* weights, as the loop over the holdings fills it
HoldingWeights(hs) ==
    [t \in PortfolioTickers(hs) |->
        Rat((CHOOSE h \in {hs[i] : i \in 1..Len(hs)} : h.symbol = t).weight)]

\* the checks of all_data before it fetches: the exception raised, or "ok"
ValidateInputs(ptype, hcls, hs, bench) ==
    IF ptype # "Portfolio" THEN Raise("TypeError", "portfolio")
    ELSE IF bench = "" THEN Raise("ValueError", "benchmark_ticker")
    ELSE IF hs = <<>> THEN Raise("ValueError", "no_holdings")
    ELSE IF hcls # "Holding" THEN Raise("ValueError", "holding_attributes")
    ELSE IF \E i \in 1..Len(hs) : hs[i].symbol = ""
         THEN Raise("ValueError", "empty_symbol")
    ELSE IF ~RPositive(RSum(HoldingWeights(hs)))
         THEN Raise("ValueError", "total_weight")
    ELSE [kind |-> "ok"]

\* all_tickers_to_fetch
TickersToFetch(hs, bench) == PortfolioTickers(hs) \cup {bench}

\* what fetch_histories_concurrently can return for the tickers asked for:
\* a non-empty history for some of them (SpecBatch: C3_FailureIsolated)
FetchOutcomes(asked) == UNION {[S -> 1..MaxBars] : S \in SUBSET asked}

\* benchmark_alternatives
BenchmarkAlternatives(bench) ==
    CASE bench = "ACWI" -> <<"SPY", "VT">>
      [] bench = "SPY"  -> <<"VOO", "IVV">>
      [] bench = "VT"   -> <<"ACWI", "VTI">>
      [] OTHER          -> <<>>

\* fallback_ticker: the first alternative that has a history, "" for None
FallbackTicker(bench, ah) ==
    LET alts == BenchmarkAlternatives(bench)
        found == {i \in 1..Len(alts) : alts[i] \in DOMAIN ah}
    IN  IF found = {} THEN ""
        ELSE alts[CHOOSE i \in found : \A j \in found : i <= j]

\* BenchmarkUsed taking the history of any ticker when neither the benchmark
\* nor an alternative has one
BenchmarkUsedAnyHistory(bench, ah) ==
    IF bench \in DOMAIN ah THEN bench
    ELSE IF FallbackTicker(bench, ah) # "" THEN FallbackTicker(bench, ah)
    ELSE IF DOMAIN ah # {} THEN CHOOSE t \in DOMAIN ah : TRUE
    ELSE ""

\* the ticker whose history is taken as benchmark_data, "" when there is none
BenchmarkUsed(bench, ah) ==
    IF bench \in DOMAIN ah THEN bench ELSE FallbackTicker(bench, ah)

\* weight + factor for every ticker of w: the same amount is given to every
\* ticker, whatever its weight
ScaledByAdding(w, factor) == [t \in DOMAIN w |-> RAdd(w[t], factor)]

\* weight * factor for every ticker of w
Scaled(w, factor) == [t \in DOMAIN w |-> RMul(w[t], factor)]

\* the weights after the tickers without a history are dropped
PartialWeights(w, total, available) ==
    Scaled(Restrict(w, available), RDiv(total, RSumOver(w, available)))

\* the weights after the tickers with too few points are dropped
RenormalizedWeights(w, total) ==
    IF RPositive(RSum(w)) THEN Scaled(w, RDiv(total, RSum(w))) ELSE w

\* all_data from the insufficient-data check to its return
ValidateSufficient(ah, bdata, w, total, ap, msg, missing) ==
    LET insufficient == {t \in DOMAIN ah : ah[t] < 2}
        kept == (DOMAIN ah) \ insufficient
        msg2 == IF insufficient = {} THEN msg
                ELSE IF msg # <<>> THEN Append(msg, "additionally_insufficient")
                ELSE <<"insufficient">>
        w2 == IF insufficient = {} THEN w
              ELSE RenormalizedWeights(Restrict(w, (DOMAIN w) \ insufficient), total)
    IN  IF insufficient # {} /\ ~ap THEN Raise("ValueError", "insufficient")
        ELSE IF insufficient # {} /\ kept = {}
             THEN Raise("ValueError", "none_sufficient")
        ELSE IF bdata < 2 THEN Raise("ValueError", "benchmark_insufficient")
        ELSE [kind |-> "ok",
              portfolio_data |-> Restrict(ah, kept),
              benchmark_data |-> bdata,
              weights |-> w2,
              warning |-> IF msg2 = <<>> THEN NoWarning
                          ELSE [msg |-> msg2,
                                missing_tickers |-> missing \cup insufficient]]

\* all_data from the missing-tickers check on; ah is all_histories after
\* the benchmark's history was popped
CheckPortfolioTickers(pt, ah, bdata, w, total, ap, msg) ==
    LET missing == pt \ DOMAIN ah
        available == pt \cap DOMAIN ah
    IN  IF missing = {} THEN ValidateSufficient(ah, bdata, w, total, ap, msg, {})
        ELSE IF ~ap \/ available = {} THEN Raise("ValueError", "missing")
        ELSE IF ~RPositive(RSumOver(w, available))
             THEN Raise("ValueError", "available_weight")
        ELSE ValidateSufficient(ah, bdata, PartialWeights(w, total, available),
                                total, ap, <<"partial">>, missing)

\* all_data once fetch_histories_concurrently returned all_histories
Assemble(hs, bench, ap, all_histories) ==
    LET used == BenchmarkUsed(bench, all_histories)
        w == HoldingWeights(hs)
    IN  IF DOMAIN all_histories = {} THEN Raise("ValueError", "no_history")
        ELSE IF used = "" THEN Raise("ValueError", "benchmark")
        ELSE CheckPortfolioTickers(
                 PortfolioTickers(hs),
                 Restrict(all_histories, (DOMAIN all_histories) \ {used}),
                 all_histories[used], w, RSum(w), ap,
                 IF used = bench THEN <<>> ELSE <<"fallback">>)

\* all_data taking every call for a call in partial mode
AllDataAlwaysPartial(ptype, hcls, hs, bench, ap, all_histories) ==
    LET v == ValidateInputs(ptype, hcls, hs, bench)
    IN  IF v.kind # "ok" THEN v ELSE Assemble(hs, bench, TRUE, all_histories)

\* all_data(portfolio, benchmark_ticker, allow_partial), all_histories being
\* what its fetch returns
AllData(ptype, hcls, hs, bench, ap, all_histories) ==
    LET v == ValidateInputs(ptype, hcls, hs, bench)
    IN  IF v.kind # "ok" THEN v ELSE Assemble(hs, bench, ap, all_histories)

\* the weights argument of analyze_portfolio: None, or a dict
NoneWeights == [given |-> FALSE, d |-> EmptyDict]

GivenWeights(d) == [given |-> TRUE, d |-> d]

NoArgs == [tickers_data |-> EmptyDict, benchmark_data |-> 0,
           weights |-> NoneWeights, allow_partial |-> TRUE]

\* what stops analyze_portfolio for a reason found in the price data:
\* the benchmark's frame cannot be built, no row survives the alignment,
\* no return can be computed, the benchmark's or the portfolio's metrics fail
DataFaults == {"none", "benchmark_input", "no_overlap", "no_returns",
               "benchmark_metrics", "portfolio_metrics"}

\* skipped_tickers: no data, or data that cannot be made a price column (bad)
SkippedTickers(td, bad) == {t \in DOMAIN td : td[t] = 0 \/ t \in bad}

\* the weights are renormalized for the skipped tickers
AdjustsWeights(w, skipped) == skipped # {} /\ w.given /\ DOMAIN w.d # {}

\* weights after "Adjust weights for skipped tickers"
AdjustedWeights(w, skipped) ==
    LET adjusted == Restrict(w.d, (DOMAIN w.d) \ skipped)
    IN  IF ~AdjustsWeights(w, skipped) THEN w
        ELSE IF DOMAIN adjusted = {} THEN NoneWeights
        ELSE GivenWeights(Scaled(adjusted, RDiv(RSum(w.d), RSum(adjusted))))

\* v / weight_sum with weight_sum = 0
DividesByZero(w, skipped) ==
    /\ AdjustsWeights(w, skipped)
    /\ (DOMAIN w.d) \ skipped # {}
    /\ RSumOver(w.d, (DOMAIN w.d) \ skipped) = Rat(0)

\* weights after the tickers whose analysis failed are popped
PoppedWeights(w, failed) ==
    IF failed # {} /\ w.given /\ DOMAIN w.d # {}
    THEN GivenWeights(Restrict(w.d, (DOMAIN w.d) \ failed))
    ELSE w

EqualWeights(available) == [t \in available |-> Reduce(<<1, Cardinality(available)>>)]

\* [weights.get(t, 0) for t in available_tickers]
WeightsArray(w, available) ==
    [t \in available |-> IF t \in DOMAIN w.d THEN w.d[t] ELSE Rat(0)]

\* "weights_array.sum() == 0": the equal-weight fallback is taken
ZeroWeights(w, available) == w.given /\ RSum(WeightsArray(w, available)) = Rat(0)

\* weights_array, as the portfolio's returns are computed with it
FinalWeights(w, available) ==
    IF ~w.given \/ ZeroWeights(w, available) THEN EqualWeights(available)
    ELSE Scaled(WeightsArray(w, available),
                RDiv(Rat(1), RSum(WeightsArray(w, available))))

\* the messages of the AnalysisWarning
AnalysisMessages(w, skipped, failed, available) ==
    (IF skipped # {} THEN <<"skipped">> ELSE <<>>)
    \o (IF failed # {} THEN <<"could_not_analyze">> ELSE <<>>)
    \o (IF ZeroWeights(w, available) THEN <<"equal_weights">> ELSE <<>>)

\* analyze_portfolio(tickers_data, benchmark_data, weights, allow_partial):
\* bad, fault and failing say what the price data make fail
AnalyzePortfolio(td, bd, w, ap, bad, fault, failing) ==
    LET skipped == SkippedTickers(td, bad)
        priced == (DOMAIN td) \ skipped
        failed == failing \cap priced
        available == priced \ failed
        w1 == AdjustedWeights(w, skipped)
        w2 == PoppedWeights(w1, failed)
    IN  IF DOMAIN td = {} THEN Raise("ValueError", "tickers_data")
        ELSE IF bd = 0 THEN Raise("ValueError", "benchmark_data")
        ELSE IF skipped # {} /\ ~ap THEN Raise("ValueError", "ticker_input")
        ELSE IF priced = {} THEN Raise("ValueError", "no_valid_ticker")
        ELSE IF fault = "benchmark_input" THEN Raise("ValueError", fault)
        ELSE IF DividesByZero(w, skipped) THEN Raise("ZeroDivisionError", "weight_sum")
        ELSE IF fault \in {"no_overlap", "no_returns", "benchmark_metrics"}
             THEN Raise("ValueError", fault)
        ELSE IF failed # {} /\ ~ap THEN Raise("ValueError", "ticker_metrics")
        ELSE IF available = {} THEN Raise("ValueError", "none_analyzed")
        ELSE IF fault = "portfolio_metrics" THEN Raise("ValueError", fault)
        ELSE [kind |-> "ok",
              tickers |-> available,
              weights_array |-> FinalWeights(w2, available),
              equal_weights |-> ~w2.given \/ ZeroWeights(w2, available),
              warning |-> [msg |-> AnalysisMessages(w2, skipped, failed, available),
                           affected_tickers |-> skipped \cup failed]]

AnalysisInit ==
    /\ apc = "start"
    /\ caller \in {"all_data", "analyze_portfolio", "analyze_performance"}
    /\ portfolioType \in {"Portfolio", "Other"}
    /\ holdingClass \in {"Holding", "dict"}
    /\ holdings \in HoldingLists
    /\ benchmark \in Benchmarks
    /\ allowPartial \in BOOLEAN
    /\ caller = "analyze_performance" => allowPartial
    /\ caller = "analyze_portfolio" =>
          /\ portfolioType = "Portfolio"
          /\ holdingClass = "Holding"
          /\ benchmark = ""
          /\ "" \notin PortfolioTickers(holdings)
    /\ fetched = EmptyDict
    /\ fetchCalls = 0
    /\ requested = {}
    /\ adResult = NoResult
    /\ apArgs = NoArgs
    /\ apFacts = NoResult
    /\ apResult = NoResult
    /\ perf = NoResult
    /\ allDataCalls = 0
    /\ analyzeCalls = 0
    /\ llmCalls = 0

\* the histories the fetch of this call returns; no fetch when the inputs
\* are rejected
FetchesOf(ptype, hcls, hs, bench) ==
    IF ValidateInputs(ptype, hcls, hs, bench).kind = "ok"
    THEN FetchOutcomes(TickersToFetch(hs, bench))
    ELSE {EmptyDict}

\* all_data fetching before it looks at its inputs
FetchesFirst(ptype, hcls, hs, bench) == 1

Fetches(ptype, hcls, hs, bench) ==
    IF ValidateInputs(ptype, hcls, hs, bench).kind = "ok" THEN 1 ELSE 0

\* the tickers of that fetch
Requests(ptype, hcls, hs, bench) ==
    IF ValidateInputs(ptype, hcls, hs, bench).kind = "ok"
    THEN TickersToFetch(hs, bench)
    ELSE {}

\* a direct call of all_data
AllDataCall ==
    /\ apc = "start"
    /\ caller = "all_data"
    /\ \E ah \in FetchesOf(portfolioType, holdingClass, holdings, benchmark) :
          /\ fetched' = ah
          /\ adResult' = AllData(portfolioType, holdingClass, holdings, benchmark, allowPartial, ah)
    /\ fetchCalls' = Fetches(portfolioType, holdingClass, holdings, benchmark)
    /\ requested' = Requests(portfolioType, holdingClass, holdings, benchmark)
    /\ allDataCalls' = allDataCalls + 1
    /\ apc' = IF adResult'.kind = "ok" THEN "done" ELSE "raised"
    /\ UNCHANGED <<caller, portfolioType, holdingClass, holdings, benchmark, allowPartial,
                   apArgs, apFacts, apResult, perf, analyzeCalls, llmCalls>>
    /\ UNCHANGED otherThanAnalysis

\* a direct call of analyze_portfolio, with the holdings' weights or, with
\* no holdings, without weights
AnalyzePortfolioCall ==
    /\ apc = "start"
    /\ caller = "analyze_portfolio"
    /\ \E S \in SUBSET Tickers : \E td \in [S -> {0, MaxBars}] :
       \E bd \in {0, MaxBars} :
       \E bad \in SUBSET {t \in S : td[t] > 0} :
       \E fault \in DataFaults :
       \E failing \in SUBSET (S \ SkippedTickers(td, bad)) :
          LET w == IF holdings = <<>> THEN NoneWeights
                   ELSE GivenWeights(HoldingWeights(holdings))
          IN  /\ apArgs' = [tickers_data |-> td, benchmark_data |-> bd,
                            weights |-> w, allow_partial |-> allowPartial]
              /\ apFacts' = [bad |-> bad, fault |-> fault, failing |-> failing]
              /\ apResult' = AnalyzePortfolio(td, bd, w, allowPartial,
                                              bad, fault, failing)
    /\ analyzeCalls' = analyzeCalls + 1
    /\ apc' = IF apResult'.kind = "ok" THEN "done" ELSE "raised"
    /\ UNCHANGED <<caller, portfolioType, holdingClass, holdings, benchmark, allowPartial,
                   fetched, fetchCalls, requested, adResult, perf, allDataCalls,
                   llmCalls>>
    /\ UNCHANGED otherThanAnalysis

\* the AnalysisAgent stored when all_data or analyze_portfolio raised a
\* ValueError: four advices
DegradedResult(stage) ==
    [source |-> stage, key |-> "is_performing", value |-> FALSE,
     reasoning |-> "error", advices |-> 4]

\* the AnalysisAgent objects the analyst model answers with
LLMResponses ==
    [source : {"llm"}, key : {"is_performing"}, value : BOOLEAN,
     reasoning : {"llm"}, advices : {0, 2}]

\* AfterAnalyzePortfolio going on to the analyst model whatever
\* analyze_portfolio returned or raised
AfterAnalyzePortfolioJudgesAnyway(r) ==
    /\ apResult' = r
    /\ analyzeCalls' = analyzeCalls + 1
    /\ apc' = "metrics"
    /\ UNCHANGED <<perf, llmCalls>>

\* what analyze_performance does once analyze_portfolio returned or raised r
AfterAnalyzePortfolio(r) ==
    /\ apResult' = r
    /\ analyzeCalls' = analyzeCalls + 1
    /\ IF r.kind = "ValueError"
       THEN /\ perf' = DegradedResult("analyze_portfolio")
            /\ apc' = "done"
       ELSE IF r.kind # "ok"
       THEN /\ apc' = "raised"
            /\ UNCHANGED perf
       ELSE /\ apc' = "metrics"
            /\ UNCHANGED perf
    /\ UNCHANGED llmCalls

\* analyze_performance(state), performance.py:8-68: the call of all_data
AnalyzePerformanceCall ==
    /\ apc = "start"
    /\ caller = "analyze_performance"
    /\ fetchCalls' = Fetches(portfolioType, holdingClass, holdings, benchmark)
    /\ requested' = Requests(portfolioType, holdingClass, holdings, benchmark)
    /\ allDataCalls' = allDataCalls + 1
    /\ \E ah \in FetchesOf(portfolioType, holdingClass, holdings, benchmark) :
          LET r == AllData(portfolioType, holdingClass, holdings, benchmark, TRUE, ah)
          IN  /\ fetched' = ah
              /\ adResult' = r
              /\ IF r.kind = "ValueError"
                 THEN /\ perf' = DegradedResult("all_data")
                      /\ apc' = "done"
                      /\ UNCHANGED apArgs
                 ELSE IF r.kind # "ok"
                 THEN /\ apc' = "raised"
                      /\ UNCHANGED <<apArgs, perf>>
                 ELSE /\ apArgs' = [tickers_data |-> r.portfolio_data,
                                    benchmark_data |-> r.benchmark_data,
                                    weights |-> GivenWeights(r.weights),
                                    allow_partial |-> TRUE]
                      /\ apc' = "data"
                      /\ UNCHANGED perf
    /\ UNCHANGED <<caller, portfolioType, holdingClass, holdings, benchmark, allowPartial,
                   apFacts, apResult, analyzeCalls, llmCalls>>
    /\ UNCHANGED otherThanAnalysis

\* performance.py:70-104: the call of analyze_portfolio with the data of
\* all_data, which are well-formed bars (no ticker is skipped)
AnalyzePerformanceMetrics ==
    /\ apc = "data"
    /\ \E fault \in DataFaults :
       \E failing \in SUBSET DOMAIN apArgs.tickers_data :
          /\ apFacts' = [bad |-> {}, fault |-> fault, failing |-> failing]
          /\ AfterAnalyzePortfolio(
                 AnalyzePortfolio(apArgs.tickers_data, apArgs.benchmark_data,
                                  apArgs.weights, apArgs.allow_partial,
                                  {}, fault, failing))
    /\ UNCHANGED <<caller, portfolioType, holdingClass, holdings, benchmark, allowPartial,
                   fetched, fetchCalls, requested, adResult, apArgs, allDataCalls>>
    /\ UNCHANGED otherThanAnalysis

\* performance.py:106-191: the prompt is built and the analyst model asked
AnalyzePerformanceJudge ==
    /\ apc = "metrics"
    /\ perf' \in LLMResponses
    /\ llmCalls' = llmCalls + 1
    /\ apc' = "done"
    /\ UNCHANGED <<caller, portfolioType, holdingClass, holdings, benchmark, allowPartial,
                   fetched, fetchCalls, requested, adResult, apArgs, apFacts,
                   apResult, allDataCalls, analyzeCalls>>
    /\ UNCHANGED otherThanAnalysis

AnalysisNext ==
    \/ AllDataCall
    \/ AnalyzePortfolioCall
    \/ AnalyzePerformanceCall
    \/ AnalyzePerformanceMetrics
    \/ AnalyzePerformanceJudge

InitAnalysis ==
    /\ AnalysisInit
    /\ FetchIdle
    /\ BatchIdle
    /\ polygonAvailable = TRUE
    /\ lastHeaders = "none"
    /\ RestIdle

SpecAnalysis == InitAnalysis /\ [][AnalysisNext]_vars

(***************************************************************************)
(* One run of the advisory workflow from create_portfolio on.  state['data']*)
(* and the dictionaries in it are functions from keys to values; the nodes  *)
(* change them in place and return the state they were given, and the graph *)
(* folds what a node returned into its state with merge_dicts.  An analysis *)
(* result is its status value and where it came from.  The four analysis    *)
(* nodes run in one step of the analyst graph on threads that share         *)
(* state['data'], so their statements interleave.                           *)
(***************************************************************************)
otherThanWorkflow == <<fetchVars, batchVars, analysisVars, metricsVars, cacheVars>>

\* merge_dicts(a, b): {**a, **b}
merge_dicts(a, b) ==
    [k \in DOMAIN a \cup DOMAIN b |-> IF k \in DOMAIN b THEN b[k] ELSE a[k]]

\* the analysis nodes of create_analyst_graph
AnalysisNodes == {"expense_ratio", "diversification", "alignment", "performance"}

\* the weights _normalize_weights leaves: they add up to 100
NormalizedWeights == {0, 40, 60, 100}

\* the weights of the first n holdings of h, added up
RECURSIVE TotalWeight(_, _)
TotalWeight(h, n) == IF n = 0 THEN 0 ELSE TotalWeight(h, n - 1) + h[n].weight

\* the holdings create_portfolio can store: none, or holdings (a missing
\* symbol is "") whose weights add up to 100
CreatedHoldings ==
    {h \in UNION {[1..k -> [symbol : {"VTI", "BND", ""}, weight : NormalizedWeights]] :
                    k \in 0..MaxCreatedHoldings} :
        /\ h # <<>> => TotalWeight(h, Len(h)) = 100
        /\ \A i \in 1..Len(h) : \A j \in 1..Len(h) :
              i < j => \E a \in 1..Len(HoldingOrder) : \E b \in 1..Len(HoldingOrder) :
                          /\ a < b
                          /\ HoldingOrder[a] = h[i].symbol
                          /\ HoldingOrder[b] = h[j].symbol}

\* the ticker of Benchmarks.ACWI, which analyze_performance falls back to
\* when state['data'] has no benchmark (run_workflow passes none)
DefaultBenchmark == "ACWI"

WorkflowInit ==
    /\ wpc = "create_portfolio"
    /\ routerView \in {"merged", "returned"}
    /\ data = <<>>
    /\ npc = [n \in AnalysisNodes |-> "idle"]
    /\ nodeSaw = [n \in AnalysisNodes |-> FALSE]
    /\ creates = 0
    /\ revisions = 0

\* create_portfolio(state): the holdings are stored as the list of dicts
\* enriched_holdings; run_analysis starts its four analysis nodes
CreatePortfolio ==
    /\ wpc = "create_portfolio"
    /\ creates < MaxCreates
    /\ \E h \in CreatedHoldings :
          data' = Put(data, "portfolio",
                      [type |-> "Portfolio", holding_class |-> "dict", holdings |-> h])
    /\ creates' = creates + 1
    /\ wpc' = "nodes"
    /\ npc' = [n \in AnalysisNodes |-> "check"]
    /\ nodeSaw' = [n \in AnalysisNodes |-> FALSE]
    /\ UNCHANGED <<routerView, revisions>>
    /\ UNCHANGED otherThanWorkflow

\* a node evaluates: 'analysis' not in state['data']
NodeCheck(n) ==
    /\ wpc = "nodes"
    /\ npc[n] = "check"
    /\ nodeSaw' = [nodeSaw EXCEPT ![n] = "analysis" \notin DOMAIN data]
    /\ npc' = [npc EXCEPT ![n] = IF "analysis" \notin DOMAIN data THEN "create" ELSE "write"]
    /\ UNCHANGED <<wpc, routerView, data, creates, revisions>>
    /\ UNCHANGED otherThanWorkflow

\* a node that found no analysis executes: state['data']['analysis'] = {}
NodeCreate(n) ==
    /\ wpc = "nodes"
    /\ npc[n] = "create"
    /\ data' = Put(data, "analysis", <<>>)
    /\ npc' = [npc EXCEPT ![n] = "write"]
    /\ UNCHANGED <<wpc, routerView, nodeSaw, creates, revisions>>
    /\ UNCHANGED otherThanWorkflow

\* an analysis the analyst model answered
FromLLM == [value : BOOLEAN, source : {"llm"}]

\* what analyze_performance stores for the portfolio in state['data']
PerformanceResponses(portfolio) ==
    IF ValidateInputs(portfolio.type, portfolio.holding_class,
                      portfolio.holdings, DefaultBenchmark).kind = "ValueError"
    THEN {[value |-> FALSE, source |-> "validation"]}
    ELSE FromLLM \cup {[value |-> FALSE, source |-> "degraded"]}

\* what node n stores
Responses(n) ==
    IF n = "performance" THEN PerformanceResponses(data["portfolio"]) ELSE FromLLM

\* a node executes: state["data"]['analysis'][n] = response
NodeWrite(n) ==
    /\ wpc = "nodes"
    /\ npc[n] = "write"
    /\ \E r \in Responses(n) :
          data' = Put(data, "analysis", Put(data["analysis"], n, r))
    /\ npc' = [npc EXCEPT ![n] = "done"]
    /\ UNCHANGED <<wpc, routerView, nodeSaw, creates, revisions>>
    /\ UNCHANGED otherThanWorkflow

\* the four nodes returned the state they share: the graph folds the four
\* returned values into its state and goes on to the analyst node
AnalystJoin ==
    /\ wpc = "nodes"
    /\ \A n \in AnalysisNodes : npc[n] = "done"
    /\ data' = merge_dicts(merge_dicts(merge_dicts(merge_dicts(data, data), data), data), data)
    /\ wpc' = "analyst"
    /\ npc' = [n \in AnalysisNodes |-> "idle"]
    /\ UNCHANGED <<routerView, nodeSaw, creates, revisions>>
    /\ UNCHANGED otherThanWorkflow

\* confidence: the analyses of response whose status value is true
Confidence(response) == Cardinality({n \in AnalysisNodes : response[n].value})

\* SummaryApproval keeping what the analyst model answered
SummaryApprovalFromLLM(computed, answered) == answered

\* analysis_response.is_approved after line 79
SummaryApproval(computed, answered) == computed

\* is_approved(state): a missing analysis is a KeyError
IsApproved ==
    /\ wpc = "analyst"
    /\ LET response == data["analysis"]
       IN  IF ~(AnalysisNodes \subseteq DOMAIN response)
           THEN /\ wpc' = "raised"
                /\ UNCHANGED data
           ELSE /\ \E answered \in BOOLEAN :
                   LET computed == Confidence(response) >= 2
                       summary  == [is_approved |-> SummaryApproval(computed, answered),
                                    answered |-> answered]
                   IN  data' = Put(data, "analysis",
                                   Put(Put(response, "is_approved", computed),
                                       "summary", summary))
                /\ wpc' = "check_analysis"
    /\ UNCHANGED <<routerView, npc, nodeSaw, creates, revisions>>
    /\ UNCHANGED otherThanWorkflow

\* state.get("data", {}).get("retries", 0)
Retries(d) == IF "retries" \in DOMAIN d THEN d["retries"] ELSE 0

\* state.get("data", {}).get("analysis", {}).get("is_approved", False)
ApprovedIn(d) ==
    /\ "analysis" \in DOMAIN d
    /\ "is_approved" \in DOMAIN d["analysis"]
    /\ d["analysis"]["is_approved"]

\* check_analysis(state), the router after run_analysis.  It writes the
\* retry count into the state['data'] it was handed: the object run_analysis
\* returned, which the graph then folds into its state, or a dictionary the
\* graph built for the router with merge_dicts, which nothing reads again.
CheckAnalysis ==
    /\ wpc = "check_analysis"
    /\ LET view == merge_dicts(data, data)
       IN  IF ~ApprovedIn(view) /\ Retries(view) < 2
           THEN /\ data' = IF routerView = "returned"
                           THEN Put(data, "retries", Retries(view) + 1)
                           ELSE data
                /\ wpc' = "prepare_feedback"
           ELSE /\ wpc' = "end"
                /\ UNCHANGED data
    /\ UNCHANGED <<routerView, npc, nodeSaw, creates, revisions>>
    /\ UNCHANGED otherThanWorkflow

\* prepare_portfolio_feedback(state)
PrepareFeedback ==
    /\ wpc = "prepare_feedback"
    /\ data' = Put(Put(data, "analysis",
                       Put(data["analysis"], "portfolio_feedback", "feedback")),
                   "retries", Retries(data))
    /\ revisions' = revisions + 1
    /\ wpc' = "create_portfolio"
    /\ UNCHANGED <<routerView, npc, nodeSaw, creates>>
    /\ UNCHANGED otherThanWorkflow

WorkflowNext ==
    \/ CreatePortfolio
    \/ \E n \in AnalysisNodes : NodeCheck(n)
    \/ \E n \in AnalysisNodes : NodeCreate(n)
    \/ \E n \in AnalysisNodes : NodeWrite(n)
    \/ AnalystJoin
    \/ IsApproved
    \/ CheckAnalysis
    \/ PrepareFeedback

InitWorkflow ==
    /\ WorkflowInit
    /\ FetchIdle
    /\ BatchIdle
    /\ AnalysisIdle
    /\ polygonAvailable = TRUE
    /\ lastHeaders = "none"
    /\ MetricsIdle
    /\ CacheIdle

SpecWorkflow == InitWorkflow /\ [][WorkflowNext]_vars

(***************************************************************************)
(* One call of calculate_performance_metrics on the prices of consecutive  *)
(* days.  Returns are exact rationals and a metric is kept in             *)
(* ten-thousandths, as round(x, 4) leaves it.  Of the metrics returned the  *)
(* model keeps Cumulative Return and Max Drawdown; CAGR, volatility and the *)
(* Sharpe ratio need roots and powers and are left out.                    *)
(***************************************************************************)
otherThanMetrics == <<fetchVars, batchVars, analysisVars, workflowVars, cacheVars>>

RSub(a, b) == RAdd(a, <<-b[1], b[2]>>)

RLeq(a, b) == a[1] * b[2] <= b[1] * a[2]

\* max(S) and min(S) of a non-empty set of rationals
RMax(S) == CHOOSE x \in S : \A y \in S : RLeq(y, x)

RMin(S) == CHOOSE x \in S : \A y \in S : RLeq(x, y)

\* round(x, 4), in ten-thousandths (no value of the model lies halfway)
Round4(x) ==
    IF x[1] >= 0
    THEN (2 * x[1] * 10000 + x[2]) \div (2 * x[2])
    ELSE -((2 * (-x[1]) * 10000 + x[2]) \div (2 * x[2]))

\* price_series.pct_change().dropna(): one return for each price but the first
pct_change(ps) ==
    [i \in 1..(Len(ps) - 1) |-> RSub(RDiv(Rat(ps[i + 1]), Rat(ps[i])), Rat(1))]

\* (1 + daily_returns).cumprod(), up to place i
RECURSIVE cumprod(_, _)
cumprod(returns, i) ==
    IF i = 0 THEN Rat(1)
    ELSE RMul(cumprod(returns, i - 1), RAdd(Rat(1), returns[i]))

\* cum_returns.cummax() at place i
cummax(cum, i) == RMax({cum[j] : j \in 1..i})

\* lines 47-51: the smallest of (cum_returns - peak) / peak
max_drawdown(ps) ==
    LET daily_returns == pct_change(ps)
        cum_returns   == [i \in DOMAIN daily_returns |-> cumprod(daily_returns, i)]
        peak          == [i \in DOMAIN cum_returns |-> cummax(cum_returns, i)]
        drawdown      == [i \in DOMAIN cum_returns |->
                             RDiv(RSub(cum_returns[i], peak[i]), peak[i])]
    IN  RMin({drawdown[i] : i \in DOMAIN drawdown})

\* daily_returns.std() == 0: two or more returns, all the same (the sample
\* deviation of a single return is NaN, which is not 0)
ZeroVolatility(ps) ==
    LET daily_returns == pct_change(ps)
    IN  /\ Len(daily_returns) >= 2
        /\ \A i \in DOMAIN daily_returns : daily_returns[i] = daily_returns[1]

\* calculate_performance_metrics(price_series)
calculate_performance_metrics(ps) ==
    IF Len(ps) < 2 THEN Raise("ValueError", "data_points")
    ELSE IF \E i \in 1..Len(ps) : ps[i] <= 0 THEN Raise("ValueError", "positive_values")
    ELSE IF ZeroVolatility(ps) THEN Raise("ValueError", "volatility")
    ELSE [kind |-> "ok",
          cumulative_return |-> Round4(RSub(RDiv(Rat(ps[Len(ps)]), Rat(ps[1])), Rat(1))),
          max_drawdown |-> Round4(max_drawdown(ps))]

\* the price series of the model
PriceSeries == UNION {[1..n -> 0..MaxPrice] : n \in 0..MaxPrices}

MetricsInit ==
    /\ mpc = "start"
    /\ prices \in PriceSeries
    /\ metrics = NoResult

CalculateMetrics ==
    /\ mpc = "start"
    /\ metrics' = calculate_performance_metrics(prices)
    /\ mpc' = IF metrics'.kind = "ok" THEN "done" ELSE "raised"
    /\ UNCHANGED prices
    /\ UNCHANGED otherThanMetrics

MetricsNext == CalculateMetrics

InitMetrics ==
    /\ MetricsInit
    /\ FetchIdle
    /\ BatchIdle
    /\ AnalysisIdle
    /\ polygonAvailable = TRUE
    /\ lastHeaders = "none"
    /\ WorkflowIdle
    /\ CacheIdle

SpecMetrics == InitMetrics /\ [][MetricsNext]_vars

(***************************************************************************)
(* Calls of get_overview, one after the other, on one cache directory.     *)
(* The JSON of the overview endpoint is a record of the symbol asked for   *)
(* and a content that can differ from one request to the next.             *)
(***************************************************************************)
otherThanCache == <<fetchVars, batchVars, analysisVars, workflowVars, metricsVars>>

\* the symbols get_overview is called with
OverviewSymbols == {"IVV", "A/B", "A_B"}

\* cache_dir / f"{symbol.replace('/', '_')}_overview.json"
CachePath(symbol) ==
    CASE symbol = "IVV" -> "IVV_overview.json"
      [] symbol = "A/B" -> "A_B_overview.json"
      [] symbol = "A_B" -> "A_B_overview.json"

\* what _call_alpha_vantage does for the symbol: it raises without a request
\* (no API key) or after _MAX_RETRIES requests, or one of its requests
\* returns the JSON, which is empty for a symbol the vendor does not know
ApiOutcomes(symbol) ==
    {[kind |-> "RuntimeError", requests |-> n, data |-> <<>>] : n \in {0, _MAX_RETRIES}}
    \cup {[kind |-> "ok", requests |-> n, data |-> d] :
            n \in 1.._MAX_RETRIES,
            d \in {<<>>} \cup [Symbol : {symbol}, Name : {"v1", "v2"}]}

\* _read_cache(cache_path): the JSON of the file, None without a file
ReadCache(files, path) ==
    IF path \in DOMAIN files THEN [kind |-> "ok", value |-> files[path]] ELSE NoResult

CacheInit ==
    /\ cacheFiles = <<>>
    /\ populated = <<>>
    /\ overviewCalls = 0
    /\ lastCall = NoResult

\* get_overview(symbol, cache, cache_dir, force); _write_cache can fail, which
\* is logged and leaves no file
GetOverview(symbol, cache, force) ==
    /\ overviewCalls < MaxOverviewCalls
    /\ overviewCalls' = overviewCalls + 1
    /\ LET path   == CachePath(symbol)
           cached == ReadCache(cacheFiles, path)
           call   == [symbol |-> symbol, cache |-> cache, force |-> force]
       IN  IF cache /\ ~force /\ cached # NoResult
           THEN /\ lastCall' = [call |-> call, served |-> TRUE, requests |-> 0,
                                result |-> cached]
                /\ UNCHANGED <<cacheFiles, populated>>
           ELSE \E o \in ApiOutcomes(symbol) :
                   IF o.kind # "ok"
                   THEN /\ lastCall' = [call |-> call, served |-> FALSE,
                                        requests |-> o.requests,
                                        result |-> Raise("RuntimeError", "api")]
                        /\ UNCHANGED <<cacheFiles, populated>>
                   ELSE IF o.data = <<>>
                   THEN /\ lastCall' = [call |-> call, served |-> FALSE,
                                        requests |-> o.requests,
                                        result |-> Raise("RuntimeError", "no_overview")]
                        /\ UNCHANGED <<cacheFiles, populated>>
                   ELSE LET value == [symbol |-> symbol, overview |-> o.data, raw |-> o.data]
                        IN  /\ lastCall' = [call |-> call, served |-> FALSE,
                                            requests |-> o.requests,
                                            result |-> [kind |-> "ok", value |-> value]]
                            /\ \E written \in BOOLEAN :
                                  IF cache /\ written
                                  THEN /\ cacheFiles' = Put(cacheFiles, path, o.data)
                                       /\ populated' = Put(populated, path, value)
                                  ELSE UNCHANGED <<cacheFiles, populated>>
    /\ UNCHANGED otherThanCache

CacheNext ==
    \E symbol \in OverviewSymbols : \E cache \in BOOLEAN : \E force \in BOOLEAN :
        GetOverview(symbol, cache, force)

InitCache ==
    /\ CacheInit
    /\ FetchIdle
    /\ BatchIdle
    /\ AnalysisIdle
    /\ polygonAvailable = TRUE
    /\ lastHeaders = "none"
    /\ WorkflowIdle
    /\ MetricsIdle

SpecCache == InitCache /\ [][CacheNext]_vars

(***************************************************************************)
(* Claims about one fetch, checked under SpecFetch.                        *)
(***************************************************************************)
\* get_stock_history has returned, having gone to the backend
FetchReturned == fpc = "done" /\ polygonAvailable

\* every attempt of the fetch failed in a way the claims call retryable
AllRetryable == \A i \in 1..Len(outcomes) : outcomes[i] \in {"ratelimit", "timeout"}

\* every attempt of the fetch failed
AllFailed == \A i \in 1..Len(outcomes) : outcomes[i] \in {"ratelimit", "timeout", "error"}

\* C2: whatever the backend does, and also when the vendor client cannot be
\* constructed, get_stock_history returns a list and never lets an exception
\* reach its caller.
C2_NeverRaises ==
    /\ fpc # "raised"
    /\ fpc = "done" => fresult >= 0

\* C7: a fetch whose backend calls all fail with a rate-limit signal or a timeout
\* makes exactly max_retries attempts (the configured attempt count, 3 by default)
\* and then returns an empty list.
C7_ExactlyConfiguredAttempts ==
    (FetchReturned /\ maxRetries >= 1 /\ AllRetryable)
        => (Len(outcomes) = maxRetries /\ fresult = 0)

\* C8: in a fetch whose attempts all fail, a backoff sleep separates every two
\* consecutive attempts, whatever the failure kind, and none follows the last:
\* attempts - 1 sleeps, the k-th of backoff_base * 2^(k-1) plus at most the jitter.
C8_SleepBetweenAttempts ==
    (FetchReturned /\ AllFailed)
        => /\ Len(sleeps) = Len(outcomes) - 1
           /\ \A k \in 1..Len(sleeps) : sleeps[k] - Backoff(k) \in 0..MaxJitter

\* C9: an empty result is a retryable failure: the fetch ends on an empty result
\* only when the attempt budget is used up.
C9_EmptyResultRetried ==
    (FetchReturned /\ outcomes[Len(outcomes)] = "empty")
        => Len(outcomes) >= maxRetries

\* C10: any exception of a backend call, not only a rate-limit signal, is retried:
\* the fetch ends on an exception only when the attempt budget is used up.
C10_AnyExceptionRetried ==
    (FetchReturned /\ outcomes[Len(outcomes)] = "error")
        => Len(outcomes) >= maxRetries

\* C11: get_stock_history eventually returns even when a backend call
\* never completes: the attempt that timed out is abandoned, later attempts
\* are not held up by it, and after the attempt budget the call ends.
C11_EventuallyReturns == (fpc = "start") ~> (fpc \in {"done", "raised"})

(***************************************************************************)
(* Claims about one batch, checked under SpecBatch.                        *)
(***************************************************************************)
\* the futures of ticker t
FuturesOf(t) == {i \in 1..Len(bfut) : tickers[i] = t}

\* every fetch of ticker t raised
AlwaysRaises(t) == \A i \in FuturesOf(t) : bfut[i].out = "raise"

\* every fetch of ticker t returned bars
ReturnsData(t) == \A i \in FuturesOf(t) : bfut[i].out = "bars"

\* the batch has returned, and of the tickers asked for exactly one always raised
\* while the others returned data
OneTickerRaised ==
    /\ bpc = "done"
    /\ polygonAvailable
    /\ \E bad \in TickerSet :
          /\ AlwaysRaises(bad)
          /\ \A t \in TickerSet \ {bad} : ReturnsData(t)

\* C3: a ticker whose fetch raises never makes the orchestrator raise and never
\* touches another ticker's fetch: when exactly one of the N tickers asked for
\* always raises and the others return data, the result holds exactly the N - 1
\* others, each with bars one of its fetches returned, in every interleaving.
\* (N counts the distinct tickers of the list.)
C3_FailureIsolated ==
    /\ bpc # "raised"
    /\ OneTickerRaised =>
          /\ DOMAIN histories = {t \in TickerSet : ReturnsData(t)}
          /\ Cardinality(DOMAIN histories) = Cardinality(TickerSet) - 1
          /\ \A t \in DOMAIN histories :
                \E i \in FuturesOf(t) : histories[t] = bfut[i].n

\* C3, witness: a batch of three tickers returned two of them, the fetch of the
\* third having raised
C3_Witness ==
    /\ OneTickerRaised
    /\ Cardinality(TickerSet) = 3
    /\ Cardinality(DOMAIN histories) = 2

\* the tickers asked for of which a fetch returned a non-empty history
TickersWithData ==
    {t \in TickerSet : \E i \in FuturesOf(t) : bfut[i].out = "bars"}

\* C12: the mapping returned has exactly the requested tickers whose fetch
\* returned a non-empty history as keys, each with a history its fetch
\* returned; tickers whose fetch returned empty or raised are absent and no
\* other ticker appears, in whatever order the fetches completed.
C12_ExactMapping ==
    bpc = "done" =>
        /\ DOMAIN histories = TickersWithData
        /\ \A t \in DOMAIN histories :
              \E i \in FuturesOf(t) :
                 /\ bfut[i].out = "bars"
                 /\ histories[t] = bfut[i].n

\* C12, witness: of three tickers one returned bars, one an empty list and
\* one raised; the mapping returned has the first only
C12_Witness ==
    /\ bpc = "done"
    /\ Cardinality(TickerSet) = 3
    /\ \E a \in TickerSet, b \in TickerSet, c \in TickerSet :
          /\ \A i \in FuturesOf(a) : bfut[i].out = "bars"
          /\ \A i \in FuturesOf(b) : bfut[i].out = "empty"
          /\ \A i \in FuturesOf(c) : bfut[i].out = "raise"
          /\ DOMAIN histories = {a}

(***************************************************************************)
(* Claims about one analysis, checked under SpecAnalysis.                  *)
(***************************************************************************)

\* all_data or analyze_portfolio was called and raised
StageFailed == adResult.kind \notin {"none", "ok"} \/ apResult.kind \notin {"none", "ok"}

\* the performance result is the one of a failed analysis
WellFormedFailure ==
    /\ perf # NoResult
    /\ perf.key = "is_performing"
    /\ perf.value = FALSE
    /\ perf.reasoning # ""
    /\ perf.advices >= 1

\* C1: analyze_performance never propagates an exception of all_data or
\* analyze_portfolio; whenever either of them fails it returns normally and
\* the performance result has status is_performing = false, a non-empty
\* reasoning and at least one advice.
C1_NeverPropagates ==
    caller = "analyze_performance" =>
        /\ apc # "raised"
        /\ (apc = "done" /\ StageFailed) => WellFormedFailure

\* the weights of the input holdings
InputWeights == HoldingWeights(holdings)

\* all_data returned, having dropped at least one holding
ReturnedAfterDrop ==
    /\ adResult.kind = "ok"
    /\ DOMAIN adResult.portfolio_data # PortfolioTickers(holdings)

\* C4: whenever all_data returns after dropping holdings, the returned
\* weights sum to the sum of the input holdings' weights.
C4_WeightSumConserved ==
    ReturnedAfterDrop => RSum(adResult.weights) = RSum(InputWeights)

\* w_out(a) * w_in(b) = w_out(b) * w_in(a) for all a, b that have a weight
\* in both
SameRatios(wout, win) ==
    \A a \in (DOMAIN wout) \cap (DOMAIN win) :
        \A b \in (DOMAIN wout) \cap (DOMAIN win) :
            RMul(wout[a], win[b]) = RMul(wout[b], win[a])

\* analyze_portfolio returned and did not take equal weights
UsedGivenWeights ==
    /\ apResult.kind = "ok"
    /\ apArgs.weights.given
    /\ ~apResult.equal_weights

\* C5: renormalization keeps the ratio of any two surviving tickers, in the
\* weights all_data returns and in the weight vector analyze_portfolio
\* finally uses, unless that is the equal-weight vector.
C5_RatiosPreserved ==
    /\ adResult.kind = "ok" => SameRatios(adResult.weights, InputWeights)
    /\ UsedGivenWeights => SameRatios(apResult.weights_array, apArgs.weights.d)

\* all_data dropped a holding and rescaled two survivors of different
\* weights, and analyze_portfolio normalized the weights of both
C5_Witness ==
    /\ caller = "analyze_performance"
    /\ ReturnedAfterDrop
    /\ UsedGivenWeights
    /\ \E a \in DOMAIN apResult.weights_array :
       \E b \in DOMAIN apResult.weights_array :
          /\ InputWeights[a] = Rat(20)
          /\ InputWeights[b] = Rat(60)
          /\ adResult.weights[a] # InputWeights[a]
          /\ apResult.weights_array[a] = <<1, 4>>
          /\ apResult.weights_array[b] = <<3, 4>>

\* the holdings' tickers that returned at least 2 points
UsableTickers ==
    {t \in PortfolioTickers(holdings) \cap DOMAIN fetched : fetched[t] >= 2}

\* all_data ran in partial mode with benchmark data and a non-empty strict
\* subset of the holdings usable
PartialCase ==
    /\ allDataCalls = 1
    /\ fetchCalls = 1
    /\ allowPartial
    /\ benchmark \in DOMAIN fetched
    /\ fetched[benchmark] >= 2
    /\ UsableTickers # {}
    /\ UsableTickers # PortfolioTickers(holdings)

\* C6: in partial mode with benchmark data available and a non-empty strict
\* subset S of the holdings' tickers usable, all_data returns and the keys
\* of portfolio_data and of weights are exactly S.
C6_PartialSubsetKept ==
    PartialCase =>
        /\ adResult.kind = "ok"
        /\ DOMAIN adResult.portfolio_data = UsableTickers
        /\ DOMAIN adResult.weights = UsableTickers

\* all_data fetched and the benchmark ticker has no history
BenchmarkMissing == fetchCalls = 1 /\ benchmark \notin DOMAIN fetched

\* the tickers of the benchmark's fallback list
FallbackTickers ==
    {BenchmarkAlternatives(benchmark)[i] :
        i \in 1..Len(BenchmarkAlternatives(benchmark))}

\* all_data returned with the history of a fallback ticker as benchmark_data
FallbackUsed == BenchmarkMissing /\ adResult.kind = "ok"

\* C13: when the benchmark ticker yields no data, all_data requests the data
\* of the tickers of the benchmark's fallback list, and when it returns the
\* benchmark_data is the history of a fallback ticker.
C13_FallbackRequested ==
    BenchmarkMissing =>
        /\ FallbackTickers \subseteq requested
        /\ adResult.kind = "ok" =>
              \E t \in FallbackTickers \cap DOMAIN fetched :
                 adResult.benchmark_data = fetched[t]

\* C14: whenever all_data returns with benchmark_data taken from a fallback
\* ticker, the warning is not null and its message tells of the fallback,
\* also when holdings were dropped in the same call.
C14_FallbackInWarning ==
    FallbackUsed =>
        /\ adResult.warning # NoWarning
        /\ \E i \in 1..Len(adResult.warning.msg) :
              adResult.warning.msg[i] = "fallback"

\* neither the benchmark ticker nor one of its fallbacks has a history
NoBenchmarkData ==
    /\ BenchmarkMissing
    /\ FallbackTickers \cap DOMAIN fetched = {}

\* C15 as claimed: all_data never returns without benchmark data of at least
\* 2 points, and when neither the benchmark nor a fallback has data it raises
\* the error that names the benchmark ticker, in both modes.
C15_ErrorNamesBenchmark ==
    /\ adResult.kind = "ok" => adResult.benchmark_data >= 2
    /\ NoBenchmarkData => adResult = Raise("ValueError", "benchmark")

\* C15, amended: all_data never returns without benchmark data of at least 2
\* points; when neither the benchmark nor a fallback has data it raises a
\* ValueError in both modes, which names the benchmark ticker when some
\* ticker returned data and is the no-data error when none did.
C15_BenchmarkRequired ==
    /\ adResult.kind = "ok" => adResult.benchmark_data >= 2
    /\ NoBenchmarkData =>
          adResult = Raise("ValueError",
                           IF DOMAIN fetched = {} THEN "no_history" ELSE "benchmark")

\* C15, witness: in strict mode the holdings returned data, the benchmark
\* and its fallbacks none, and the error names the benchmark
C15_Witness ==
    /\ NoBenchmarkData
    /\ ~allowPartial
    /\ PortfolioTickers(holdings) \subseteq DOMAIN fetched
    /\ adResult = Raise("ValueError", "benchmark")

\* the holdings' tickers that are missing or have fewer than 2 points
UnusableTickers == PortfolioTickers(holdings) \ UsableTickers

\* C16: in strict mode all_data returns only if every holding's ticker
\* returned at least 2 points, raises if one is missing or has fewer, and on
\* success returns the input holdings' weights unchanged.
C16_StrictMode ==
    (fetchCalls = 1 /\ ~allowPartial) =>
        /\ adResult.kind = "ok" => UnusableTickers = {}
        /\ UnusableTickers # {} => adResult.kind = "ValueError"
        /\ adResult.kind = "ok" => adResult.weights = InputWeights

\* C16, witness: a strict call with three holdings returned
C16_Witness ==
    /\ fetchCalls = 1
    /\ ~allowPartial
    /\ Len(holdings) = 3
    /\ adResult.kind = "ok"

\* C17: in partial mode, with usable benchmark data and at least one holding
\* with at least 2 points all_data returns; when no holding is usable it
\* raises, in either mode.
C17_BlocksOnlyWithoutHoldings ==
    /\ ( /\ fetchCalls = 1
         /\ allowPartial
         /\ benchmark \in DOMAIN fetched
         /\ fetched[benchmark] >= 2
         /\ UsableTickers # {} ) => adResult.kind = "ok"
    /\ (fetchCalls = 1 /\ UsableTickers = {}) => adResult.kind = "ValueError"

\* the holdings all_data dropped
DroppedHoldings == PortfolioTickers(holdings) \ DOMAIN adResult.portfolio_data

\* C18: all_data returns a warning exactly when a holding was dropped or a
\* fallback benchmark was used, none when every holding and the requested
\* benchmark supplied usable data; the warning lists exactly the dropped
\* holdings.
C18_WarningExactlyWhenDegraded ==
    adResult.kind = "ok" =>
        /\ adResult.warning # NoWarning <=> (DroppedHoldings # {} \/ FallbackUsed)
        /\ (UnusableTickers = {} /\ ~BenchmarkMissing) => adResult.warning = NoWarning
        /\ DroppedHoldings # {} => adResult.warning.missing_tickers = DroppedHoldings

\* the inputs all_data rejects: no holdings, an empty benchmark ticker, a
\* holding with an empty symbol, a total weight that is not positive
InvalidInput ==
    \/ holdings = <<>>
    \/ benchmark = ""
    \/ "" \in PortfolioTickers(holdings)
    \/ ~RPositive(RSum(InputWeights))

\* C19: for each invalid input all_data raises a validation error, and the
\* fetch orchestrator has not been called.
C19_ValidationBeforeFetch ==
    (allDataCalls = 1 /\ portfolioType = "Portfolio" /\ InvalidInput) =>
        /\ adResult.kind = "ValueError"
        /\ fetchCalls = 0
        /\ requested = {}

\* C19, witness: holdings with symbols and a benchmark, but a total weight
\* of zero
C19_Witness ==
    /\ allDataCalls = 1
    /\ portfolioType = "Portfolio"
    /\ Len(holdings) = 2
    /\ "" \notin PortfolioTickers(holdings)
    /\ benchmark # ""
    /\ adResult = Raise("ValueError", "total_weight")
    /\ fetchCalls = 0

\* the tickers analyze_portfolio was given that have no data, no closes or
\* failing metrics
ExcludedTickers ==
    SkippedTickers(apArgs.tickers_data, apFacts.bad) \cup apFacts.failing

\* the other tickers it was given
SurvivingTickers == (DOMAIN apArgs.tickers_data) \ ExcludedTickers

\* analyze_portfolio was called with tickers and benchmark data, and neither
\* the benchmark's nor the portfolio's computation fails on the data
PerTickerCase ==
    /\ analyzeCalls = 1
    /\ DOMAIN apArgs.tickers_data # {}
    /\ apArgs.benchmark_data > 0
    /\ apFacts.fault = "none"

\* C20: in partial mode analyze_portfolio leaves out the tickers whose data
\* are empty or lack closes or whose metrics fail and succeeds with the
\* others when at least one survives; in strict mode any such ticker makes it
\* raise a validation error.
C20_PerTickerFailureTolerated ==
    PerTickerCase =>
        /\ (apArgs.allow_partial /\ SurvivingTickers # {}) =>
              /\ apResult.kind = "ok"
              /\ apResult.tickers = SurvivingTickers
        /\ (~apArgs.allow_partial /\ ExcludedTickers # {}) =>
              apResult.kind = "ValueError"

\* analyze_portfolio returned no warning
NullAnalysisWarning == apResult.warning = [msg |-> <<>>, affected_tickers |-> {}]

\* the weights analyze_portfolio was given sum to zero over the surviving
\* tickers
ZeroOverSurvivors ==
    /\ apArgs.weights.given
    /\ RSum(WeightsArray(apArgs.weights, SurvivingTickers)) = Rat(0)

\* the warning says that equal weights were taken
SaysEqualWeights ==
    \E i \in 1..Len(apResult.warning.msg) : apResult.warning.msg[i] = "equal_weights"

\* C21: analyze_portfolio returns a null warning exactly when no ticker was
\* skipped or failed and no equal-weight fallback occurred; otherwise the
\* affected tickers are exactly the skipped and the failed ones; and weights
\* summing to zero over the survivors are replaced by equal weights with a
\* warning saying so.
C21_WarningAggregates ==
    /\ apResult.kind = "ok" =>
          /\ NullAnalysisWarning <=> (ExcludedTickers = {} /\ ~ZeroOverSurvivors)
          /\ apResult.warning.affected_tickers = ExcludedTickers
    /\ ( /\ PerTickerCase
         /\ apArgs.allow_partial
         /\ SurvivingTickers # {}
         /\ ZeroOverSurvivors ) =>
          /\ apResult.kind = "ok"
          /\ apResult.weights_array = EqualWeights(SurvivingTickers)
          /\ SaysEqualWeights

\* one step of analyze_performance keeps the order of the stages
StagesInOrder ==
    /\ allDataCalls' # allDataCalls => allDataCalls = 0
    /\ analyzeCalls' # analyzeCalls =>
          /\ analyzeCalls = 0
          /\ allDataCalls = 1
          /\ adResult.kind = "ok"
    /\ llmCalls' # llmCalls =>
          /\ llmCalls = 0
          /\ analyzeCalls = 1
          /\ apResult.kind = "ok"

\* analyze_performance returned
PerformanceReturned == caller = "analyze_performance" /\ apc = "done"

\* C22: in one analyze_performance the stages run in the order fetch,
\* metrics, judge without retries: all_data is called exactly once,
\* analyze_portfolio at most once and only after all_data returned, the
\* analyst model at most once and only after analyze_portfolio returned, and
\* never when a degraded result is stored.
C22_StageOrder ==
    /\ [][caller = "analyze_performance" => StagesInOrder]_vars
    /\ [](PerformanceReturned =>
            /\ allDataCalls = 1
            /\ perf.source # "llm" => llmCalls = 0)

\* C22, witness: all three stages ran, once each
C22_Witness ==
    /\ PerformanceReturned
    /\ allDataCalls = 1
    /\ analyzeCalls = 1
    /\ llmCalls = 1
    /\ perf.source = "llm"

\* C27: a holding whose ticker returned at least 2 points is kept in
\* portfolio_data and is not reported missing, in the warning or in the
\* error, also when its ticker is the benchmark ticker or the fallback used.
C27_UsableHoldingKept ==
    /\ adResult.kind = "ok" =>
          /\ UsableTickers \subseteq DOMAIN adResult.portfolio_data
          /\ adResult.warning.missing_tickers \cap UsableTickers = {}
    /\ adResult = Raise("ValueError", "missing") => UnusableTickers # {}

(***************************************************************************)
(* Claims about the advisory workflow, checked under SpecWorkflow.         *)
(***************************************************************************)
\* is_approved has returned and no node has run since
AnalystReturned ==
    /\ wpc \in {"check_analysis", "prepare_feedback", "end"}
    /\ "analysis" \in DOMAIN data
    /\ "summary" \in DOMAIN data["analysis"]

\* the dimensions whose status value is true
PassedDimensions == {n \in AnalysisNodes : data["analysis"][n].value}

\* C23: is_approved stores is_approved = true exactly when at least 2 of the
\* 4 dimension statuses are true, and the summary's is_approved is that
\* value, whatever the analyst model answered.
C23_ApprovalByMajority ==
    AnalystReturned =>
        /\ data["analysis"]["is_approved"] = (Cardinality(PassedDimensions) >= 2)
        /\ data["analysis"]["summary"].is_approved = data["analysis"]["is_approved"]

\* C23, witness: two dimensions passed and the analyst model answered "not
\* approved"
C23_Witness ==
    /\ AnalystReturned
    /\ Cardinality(PassedDimensions) = 2
    /\ ~data["analysis"]["summary"].answered
    /\ data["analysis"]["summary"].is_approved

\* C24: create_portfolio runs at most 3 times and at most 2 revisions are
\* prepared in one run, and an approved analysis is never revised.
C24_BoundedRevisions ==
    /\ creates <= 3
    /\ revisions <= 2
    /\ wpc = "prepare_feedback" => ~ApprovedIn(data)

\* C28: when the analyst node runs, state['data']['analysis'] holds the
\* result of each of the four analysis nodes.
C28_NoResultLost ==
    wpc = "analyst" => AnalysisNodes \subseteq DOMAIN data["analysis"]

\* the stored portfolio has holdings, each with a symbol and a positive weight
WellFormedHoldings ==
    LET hs == data["portfolio"].holdings
    IN  /\ hs # <<>>
        /\ \A i \in 1..Len(hs) : hs[i].symbol # "" /\ hs[i].weight > 0

\* C29: for a created portfolio whose holdings all have a symbol and a
\* positive weight, the result analyze_performance stores does not come from
\* a failed input validation of all_data.
C29_CreatedPortfolioValidates ==
    ( /\ wpc = "nodes"
      /\ npc["performance"] = "done"
      /\ "performance" \in DOMAIN data["analysis"]
      /\ WellFormedHoldings ) =>
        data["analysis"]["performance"].source # "validation"

(***************************************************************************)
(* Claims about the metrics, checked under SpecMetrics.                    *)
(***************************************************************************)
\* the running peak of the prices up to day t, the first day included
RunningPeak(t) == RMax({Rat(prices[u]) : u \in 1..t})

\* the largest peak-to-trough decline of the prices over the whole window
LargestDecline ==
    RMin({RSub(RDiv(Rat(prices[t]), RunningPeak(t)), Rat(1)) : t \in 1..Len(prices)})

\* C25: the Max Drawdown returned for a price series is its largest
\* peak-to-trough decline over the whole window, the first price included as
\* a possible peak, and is never positive.
C25_MaxDrawdown ==
    (mpc = "done") =>
        /\ metrics.max_drawdown = Round4(LargestDecline)
        /\ metrics.max_drawdown <= 0

(***************************************************************************)
(* Claims about the overview cache, checked under SpecCache.               *)
(***************************************************************************)
\* C30: a call of get_overview served from the cache made no request and
\* returned what the call that wrote the cache file returned, and a call
\* with force = true is never served from the cache.
C30_CacheTransparent ==
    lastCall # NoResult =>
        /\ lastCall.served =>
              /\ lastCall.requests = 0
              /\ lastCall.result.value = populated[CachePath(lastCall.call.symbol)]
        /\ lastCall.call.force => ~lastCall.served

=============================================================================
